---- MODULE Spec2Model ----
(***************************************************************************)
(* Model of the two scripts of the repository:                             *)
(*   scripts/plot_results.py  (the Plotter)  -> PlotSpec                   *)
(*   scripts/fetch_data.py    (the Fetcher)  -> FetchSpec                  *)
(* Each script is a straight-line program; one action models one           *)
(* statement (or one library call) of the script, and a program counter    *)
(* records the position.  Library calls are modelled by what they do with  *)
(* the data the script hands them (pandas read_csv / groupby / describe /  *)
(* boxplot, matplotlib figure / hist / show, yfinance download, to_csv).   *)
(***************************************************************************)
EXTENDS Integers, Sequences, FiniteSets, TLC

VARIABLES
    \* ---- Plotter ----
    argv,       \* sys.argv[1:], the positional arguments
    fs,         \* the filesystem seen by the Plotter: path -> content
    pc,         \* position in plot_results.py
    csv_file,   \* the local csv_file (<<>> while unset, <<path>> once set)
    df,         \* the loaded DataFrame (<<>> while unset, <<table>> once set)
    todo,       \* group keys the histogram loop has still to visit
    figs,       \* open matplotlib figures, the last one is the current one
    shown,      \* figures displayed so far, in order of display
    stdout,     \* lines / blocks printed so far
    stderr,     \* uncaught exceptions reported by the interpreter
    exit,       \* <<>> while running, <<code>> once the process has ended
    \* ---- Fetcher ----
    fpc,        \* position in fetch_data.py
    idx,        \* index into symbols of the loop variable sym
    dirExists,  \* does <project_root>/data exist
    files,      \* data/<SYMBOL>.csv : symbol -> content
    before,     \* files as they were when the run started
    data,       \* the local data (<<>> while unset)
    downloads,  \* symbols for which yf.download has been called, in order
    written,    \* symbols whose to_csv has returned, in order
    console,    \* lines printed by the Fetcher
    raised      \* <<>>, or the statement and symbol index whose exception ended the run

pvars == <<argv, fs, pc, csv_file, df, todo, figs, shown, stdout, stderr, exit>>
fvars == <<fpc, idx, dirExists, files, before, data, downloads, written, console, raised>>
vars == <<pvars, fvars>>

\* ------------------------------------------------------------------ bounds
MaxRows == 3       \* rows of an input table
MaxLat == 1        \* latency values are 0..MaxLat

\* ------------------------------------------------------------------ helpers
Some(x) == <<x>>
None == <<>>

Range(s) == {s[i] : i \in 1..Len(s)}

RECURSIVE SeqsUpTo(_, _)
SeqsUpTo(S, n) ==
    IF n = 0 THEN {<<>>}
    ELSE LET shorter == SeqsUpTo(S, n - 1)
         IN shorter \cup {Append(s, x) : s \in {t \in shorter : Len(t) = n - 1}, x \in S}

\* ------------------------------------------------------------------ Plotter inputs
NA == ""                                  \* an empty field of the file: pandas NaN
CacheTypes == <<"LocalLRU", "LockCache">> \* group labels, in sorted order
CacheCells == Range(CacheTypes) \cup {NA}
LatCells == {None} \cup {Some(v) : v \in 0..MaxLat}

FullRows == [cache_type : CacheCells, latency_us : LatCells]
NoLatRows == [cache_type : CacheCells, op : {"get"}]
NoCacheRows == [latency_us : LatCells, op : {"get"}]
NoReqRows == [op : {"get"}]

TablesOver(cols, rows) == [columns : {cols}, rows : SeqsUpTo(rows, MaxRows)]

Tables ==
    TablesOver({"cache_type", "latency_us"}, FullRows)
    \cup TablesOver({"cache_type", "op"}, NoLatRows)
    \cup TablesOver({"latency_us", "op"}, NoCacheRows)
    \cup TablesOver({"op"}, NoReqRows)

Absent == [kind |-> "absent"]
Malformed == [kind |-> "malformed"]       \* exists, but read_csv cannot parse it
TableFile(t) == [kind |-> "table", table |-> t]
Contents == {Absent, Malformed} \cup {TableFile(t) : t \in Tables}

Paths == {"results.csv", "missing.csv"}
ArgLists == {<<>>} \cup {<<p>> : p \in Paths} \cup {<<p, q>> : p \in Paths, q \in Paths}

\* ------------------------------------------------------------------ pandas
\* mutant: the check passes as soon as one of the two columns is there
HasAnyRequired(t) == {"cache_type", "latency_us"} \cap t.columns # {}

\* {"cache_type", "latency_us"}.issubset(df.columns)
HasRequired(t) == {"cache_type", "latency_us"} \subseteq t.columns

\* mutant: groupby(..., dropna=False), the missing label forms a group
GroupKeysKeepNA(t) ==
    LET Occurs(k) == \E i \in 1..Len(t.rows) : t.rows[i].cache_type = k
    IN SelectSeq(<<NA>> \o CacheTypes, Occurs)

\* df.groupby("cache_type"): the distinct labels in sorted order; rows whose
\* label is missing belong to no group (dropna=True, sort=True by default).
GroupKeys(t) ==
    LET Occurs(k) == k # NA /\ \E i \in 1..Len(t.rows) : t.rows[i].cache_type = k
    IN SelectSeq(CacheTypes, Occurs)

\* group["latency_us"]: the latency cells of the rows labelled k, in row order
GroupColumn(t, k) ==
    LET InGroup(r) == r.cache_type = k
        rs == SelectSeq(t.rows, InGroup)
    IN [i \in 1..Len(rs) |-> rs[i].latency_us]

\* the non-missing values of a column, in row order
NonMissing(cells) ==
    LET Present(c) == c # None
        cs == SelectSeq(cells, Present)
    IN [i \in 1..Len(cs) |-> cs[i][1]]

RECURSIVE Insert(_, _)
Insert(s, x) ==
    IF s = <<>> THEN <<x>>
    ELSE IF x <= Head(s) THEN <<x>> \o s
    ELSE <<Head(s)>> \o Insert(Tail(s), x)

\* mutant: the values are taken in row order
Unsorted(s) == s

RECURSIVE Sorted(_)
Sorted(s) == IF s = <<>> THEN <<>> ELSE Insert(Sorted(Tail(s)), Head(s))

\* Series.quantile(k/4) with linear interpolation, times 4 to stay integral:
\* position (n-1)*k/4 in the sorted values, interpolated between neighbours.
QuantileX4(xs, k) ==
    LET num == (Len(xs) - 1) * k
        lo == (num \div 4) + 1
        frac == num % 4
    IN IF frac = 0 THEN 4 * xs[lo]
       ELSE 4 * xs[lo] + frac * (xs[lo + 1] - xs[lo])

\* Series.describe() of one group's latency_us: count is the number of
\* non-missing values; the other statistics are NaN (None) when count is 0.
\* (mean and std are printed too; they are not modelled.)
Describe(cells) ==
    LET xs == Sorted(NonMissing(cells))
        n == Len(xs)
    IN [count |-> n,
        min |-> IF n = 0 THEN None ELSE Some(xs[1]),
        q25x4 |-> IF n = 0 THEN None ELSE Some(QuantileX4(xs, 1)),
        q50x4 |-> IF n = 0 THEN None ELSE Some(QuantileX4(xs, 2)),
        q75x4 |-> IF n = 0 THEN None ELSE Some(QuantileX4(xs, 3)),
        max |-> IF n = 0 THEN None ELSE Some(xs[n])]

\* df.groupby("cache_type")["latency_us"].describe(): one block per group
DescribeBy(t) == [k \in Range(GroupKeys(t)) |-> Describe(GroupColumn(t, k))]

\* ------------------------------------------------------------------ Plotter output
Text(parts) == [kind |-> "text", parts |-> parts]
NotFoundMsg(p) == Text(<<"CSV file ", p, " not found.">>)
MissingColumnsMsg == Text(<<"CSV missing required columns: ", "cache_type", ", ", "latency_us">>)
UsageMsg == Text(<<"Usage: python scripts/plot_results.py <results.csv>">>)
Banner == Text(<<"\n=== Summary Statistics ===">>)
StatsBlock(t) == [kind |-> "describe", blocks |-> DescribeBy(t)]

NewFigure(size) ==
    [figsize |-> size, kind |-> "empty", artists |-> <<>>, xlabel |-> "", ylabel |-> "",
     title |-> "", suptitle |-> "", legend |-> FALSE, grid |-> FALSE]

\* replace the current (last) figure
SetCurrent(fig) == [figs EXCEPT ![Len(figs)] = fig]
Current == figs[Len(figs)]

\* sys.exit(code) / falling off the end of the script
Exit(code) == pc' = "exited" /\ exit' = Some(code)
\* an uncaught exception: traceback on stderr, exit status 1
Raise(exc) == stderr' = Append(stderr, exc) /\ Exit(1)

\* ------------------------------------------------------------------ Fetcher data
symbols == <<"AAPL", "MSFT", "GOOG", "TSLA">>
Symbols == Range(symbols)

NoFile == [kind |-> "absent", of |-> ""]
OldFile(sym) == [kind |-> "old", of |-> sym]          \* left by an earlier run
PartialFile(sym) == [kind |-> "partial", of |-> sym]  \* a write that did not finish
Prices(sym) == [kind |-> "prices", of |-> sym]        \* what yf.download returns now

\* os.path.join(base_path, f"{sym}.csv")
FilePath(sym) == <<"data/", sym, ".csv">>
SavedLine(sym) == <<"Saved ">> \o FilePath(sym)

FetchIdle ==
    /\ fpc = "off" /\ idx = 1 /\ dirExists = FALSE /\ files = [s \in Symbols |-> NoFile]
    /\ before = files /\ data = None /\ downloads = <<>> /\ written = <<>>
    /\ console = <<>> /\ raised = None

\* ------------------------------------------------------------------ Plotter
PlotIdle ==
    /\ argv = <<>> /\ fs = [p \in Paths |-> Absent] /\ pc = "off"
    /\ csv_file = None /\ df = None /\ todo = <<>> /\ figs = <<>> /\ shown = <<>>
    /\ stdout = <<>> /\ stderr = <<>> /\ exit = None

\* The interpreter starts the script with some arguments and some filesystem;
\* "missing.csv" names a path that does not exist.
PlotInit ==
    /\ argv \in ArgLists
    /\ \E c \in Contents : fs = [p \in Paths |-> IF p = "missing.csv" THEN Absent ELSE c]
    /\ pc = "main"
    /\ csv_file = None /\ df = None /\ todo = <<>> /\ figs = <<>> /\ shown = <<>>
    /\ stdout = <<>> /\ stderr = <<>> /\ exit = None
    /\ FetchIdle

\* mutant: the test is len(sys.argv) < 1, so sys.argv[1] raises IndexError
MainOffByOne ==
    /\ pc = "main"
    /\ IF Len(argv) + 1 < 1
       THEN /\ stdout' = Append(stdout, UsageMsg)
            /\ Exit(1)
            /\ UNCHANGED <<csv_file, stderr>>
       ELSE IF Len(argv) = 0
       THEN /\ Raise("IndexError")
            /\ UNCHANGED <<csv_file, stdout>>
       ELSE /\ csv_file' = Some(argv[1])
            /\ pc' = "exists"
            /\ UNCHANGED <<stdout, stderr, exit>>
    /\ UNCHANGED <<argv, fs, df, todo, figs, shown, fvars>>

\* mutant: csv_file = sys.argv[-1]
MainLastArgument ==
    /\ pc = "main"
    /\ IF Len(argv) + 1 < 2
       THEN /\ stdout' = Append(stdout, UsageMsg)
            /\ Exit(1)
            /\ UNCHANGED csv_file
       ELSE /\ csv_file' = Some(argv[Len(argv)])
            /\ pc' = "exists"
            /\ UNCHANGED <<stdout, exit>>
    /\ UNCHANGED <<argv, fs, df, todo, figs, shown, stderr, fvars>>

\* if len(sys.argv) < 2: usage, exit(1); else csv_file = sys.argv[1]; plot_results(csv_file)
Main ==
    /\ pc = "main"
    /\ IF Len(argv) + 1 < 2
       THEN /\ stdout' = Append(stdout, UsageMsg)
            /\ Exit(1)
            /\ UNCHANGED csv_file
       ELSE /\ csv_file' = Some(argv[1])
            /\ pc' = "exists"
            /\ UNCHANGED <<stdout, exit>>
    /\ UNCHANGED <<argv, fs, df, todo, figs, shown, stderr, fvars>>

\* mutant: the diagnostic is printed but sys.exit(1) is missing
CheckExistsNoExit ==
    /\ pc = "exists"
    /\ IF fs[csv_file[1]].kind = "absent"
       THEN stdout' = Append(stdout, NotFoundMsg(csv_file[1]))
       ELSE UNCHANGED stdout
    /\ pc' = "read_csv"
    /\ UNCHANGED <<argv, fs, csv_file, df, todo, figs, shown, stderr, exit, fvars>>

\* if not os.path.exists(csv_file): print(...); sys.exit(1)
CheckExists ==
    /\ pc = "exists"
    /\ IF fs[csv_file[1]].kind = "absent"
       THEN /\ stdout' = Append(stdout, NotFoundMsg(csv_file[1]))
            /\ Exit(1)
       ELSE /\ pc' = "read_csv"
            /\ UNCHANGED <<stdout, exit>>
    /\ UNCHANGED <<argv, fs, csv_file, df, todo, figs, shown, stderr, fvars>>

\* df = pd.read_csv(csv_file); a file that is no table raises
ReadCsv ==
    /\ pc = "read_csv"
    /\ IF fs[csv_file[1]].kind = "table"
       THEN /\ df' = Some(fs[csv_file[1]].table)
            /\ pc' = "columns"
            /\ UNCHANGED <<stderr, exit>>
       ELSE /\ Raise("ParserError")
            /\ UNCHANGED df
    /\ UNCHANGED <<argv, fs, csv_file, todo, figs, shown, stdout, fvars>>

\* if not {...}.issubset(df.columns): print(...); sys.exit(1)
CheckColumns ==
    /\ pc = "columns"
    /\ IF ~HasRequired(df[1])
       THEN /\ stdout' = Append(stdout, MissingColumnsMsg)
            /\ Exit(1)
       ELSE /\ pc' = "groupby"
            /\ UNCHANGED <<stdout, exit>>
    /\ UNCHANGED <<argv, fs, csv_file, df, todo, figs, shown, stderr, fvars>>

\* grouped = df.groupby("cache_type"); plt.figure(figsize=(10, 6))
GroupAndFigure ==
    /\ pc = "groupby"
    /\ todo' = GroupKeys(df[1])
    /\ figs' = Append(figs, NewFigure("10x6"))
    /\ pc' = "hist"
    /\ UNCHANGED <<argv, fs, csv_file, df, shown, stdout, stderr, exit, fvars>>

\* one iteration of: for name, group in grouped: plt.hist(group["latency_us"], ...)
\* hist of a column with no finite value raises ValueError (the bin range
\* cannot be determined); missing values beside finite ones are ignored.
Hist ==
    /\ pc = "hist"
    /\ todo # <<>>
    /\ LET name == Head(todo)
           xs == NonMissing(GroupColumn(df[1], name))
       IN IF xs = <<>>
          THEN /\ Raise("ValueError")
               /\ UNCHANGED <<todo, figs>>
          ELSE /\ figs' = SetCurrent([Current EXCEPT
                              !.kind = "histogram",
                              !.artists = Append(@, [kind |-> "hist", label |-> name,
                                                     n |-> Len(xs), bins |-> 50])])
               /\ todo' = Tail(todo)
               /\ UNCHANGED <<pc, stderr, exit>>
    /\ UNCHANGED <<argv, fs, csv_file, df, shown, stdout, fvars>>

\* plt.xlabel .. plt.grid(True) after the loop (the label's micro sign is written "u")
DecorateHistogram ==
    /\ pc = "hist"
    /\ todo = <<>>
    /\ figs' = SetCurrent([Current EXCEPT
                   !.kind = "histogram",
                   !.xlabel = "Latency (us)", !.ylabel = "Frequency",
                   !.title = "Cache Latency Distribution: LocalLRU vs LockCache",
                   !.legend = TRUE, !.grid = TRUE])
    /\ pc' = "show1"
    /\ UNCHANGED <<argv, fs, csv_file, df, todo, shown, stdout, stderr, exit, fvars>>

\* mutant: the figures are also saved to a file (plt.savefig) when shown
ShowAndSave(next) ==
    /\ shown' = shown \o figs
    /\ figs' = <<>>
    /\ pc' = next
    /\ fs' = [fs EXCEPT !["missing.csv"] = Malformed]
    /\ UNCHANGED <<argv, csv_file, df, todo, stdout, stderr, exit, fvars>>

\* plt.show(): displays every open figure, blocks, and the figures are gone
\* when it returns
Show(next) ==
    /\ shown' = shown \o figs
    /\ figs' = <<>>
    /\ pc' = next
    /\ UNCHANGED <<argv, fs, csv_file, df, todo, stdout, stderr, exit, fvars>>

ShowHistogram == pc = "show1" /\ Show("figure2")

\* plt.figure(figsize=(8, 5))
Figure2 ==
    /\ pc = "figure2"
    /\ figs' = Append(figs, NewFigure("8x5"))
    /\ pc' = "boxplot"
    /\ UNCHANGED <<argv, fs, csv_file, df, todo, shown, stdout, stderr, exit, fvars>>

\* df.boxplot(column="latency_us", by="cache_type"): with by= pandas draws
\* into a figure of its own (which becomes the current one), one box per
\* group; with no group at all it raises ValueError.
Boxplot ==
    /\ pc = "boxplot"
    /\ LET keys == GroupKeys(df[1])
       IN IF keys = <<>>
          THEN /\ Raise("ValueError")
               /\ UNCHANGED figs
          ELSE /\ figs' = Append(figs, [NewFigure("default") EXCEPT
                              !.kind = "boxplot",
                              !.artists = [i \in 1..Len(keys) |->
                                             [kind |-> "box", label |-> keys[i],
                                              n |-> Len(NonMissing(GroupColumn(df[1], keys[i]))),
                                              bins |-> 0]],
                              !.suptitle = "Boxplot grouped by cache_type",
                              !.title = "latency_us", !.xlabel = "cache_type"])
               /\ pc' = "decorate2"
               /\ UNCHANGED <<stderr, exit>>
    /\ UNCHANGED <<argv, fs, csv_file, df, todo, shown, stdout, fvars>>

\* plt.ylabel .. plt.grid(True) on the boxplot figure
DecorateBoxplot ==
    /\ pc = "decorate2"
    /\ figs' = SetCurrent([Current EXCEPT
                   !.ylabel = "Latency (us)", !.title = "Latency Boxplot Comparison",
                   !.suptitle = "", !.grid = TRUE])
    /\ pc' = "show2"
    /\ UNCHANGED <<argv, fs, csv_file, df, todo, shown, stdout, stderr, exit, fvars>>

ShowBoxplot == pc = "show2" /\ Show("banner")

\* print("\n=== Summary Statistics ===")
PrintBanner ==
    /\ pc = "banner"
    /\ stdout' = Append(stdout, Banner)
    /\ pc' = "stats"
    /\ UNCHANGED <<argv, fs, csv_file, df, todo, figs, shown, stderr, exit, fvars>>

\* print(df.groupby("cache_type")["latency_us"].describe()); the script ends
PrintStats ==
    /\ pc = "stats"
    /\ stdout' = Append(stdout, StatsBlock(df[1]))
    /\ Exit(0)
    /\ UNCHANGED <<argv, fs, csv_file, df, todo, figs, shown, stderr, fvars>>

PlotNext ==
    \/ Main
    \/ CheckExists
    \/ ReadCsv
    \/ CheckColumns
    \/ GroupAndFigure
    \/ Hist
    \/ DecorateHistogram
    \/ ShowHistogram
    \/ Figure2
    \/ Boxplot
    \/ DecorateBoxplot
    \/ ShowBoxplot
    \/ PrintBanner
    \/ PrintStats

\* ------------------------------------------------------------------ Fetcher run
\* The data directory may or may not exist, and may hold files of earlier runs.
FetchInit ==
    /\ fpc = "makedirs" /\ idx = 1
    /\ dirExists \in BOOLEAN
    /\ files \in [Symbols -> {NoFile} \cup {OldFile(s) : s \in Symbols}]
    /\ \A s \in Symbols : files[s] \in {NoFile, OldFile(s)}
    /\ ~dirExists => \A s \in Symbols : files[s] = NoFile
    /\ before = files
    /\ data = None /\ downloads = <<>> /\ written = <<>> /\ console = <<>> /\ raised = None
    /\ PlotIdle

\* an uncaught exception ends the run
Abort(stmt) == fpc' = "aborted" /\ raised' = Some([stmt |-> stmt, k |-> idx])

\* os.makedirs(base_path, exist_ok=True)
MakeDirs ==
    /\ fpc = "makedirs"
    /\ \/ /\ dirExists' = TRUE
          /\ fpc' = "download"
          /\ UNCHANGED raised
       \/ /\ ~dirExists
          /\ Abort("makedirs")
          /\ UNCHANGED dirExists
    /\ UNCHANGED <<idx, files, before, data, downloads, written, console, pvars>>

\* mutant: a failed download is swallowed and the loop goes on (try/except: continue)
DownloadSkipOnError ==
    /\ fpc = "download"
    /\ downloads' = Append(downloads, symbols[idx])
    /\ \/ /\ data' = Some(Prices(symbols[idx]))
          /\ fpc' = "to_csv"
          /\ UNCHANGED <<idx, raised>>
       \/ /\ IF idx < Len(symbols)
             THEN idx' = idx + 1 /\ fpc' = "download"
             ELSE idx' = idx /\ fpc' = "done"
          /\ UNCHANGED <<data, raised>>
    /\ UNCHANGED <<dirExists, files, before, written, console, pvars>>

\* data = yf.download(sym, period="5d", interval="1m")
Download ==
    /\ fpc = "download"
    /\ downloads' = Append(downloads, symbols[idx])
    /\ \/ /\ data' = Some(Prices(symbols[idx]))
          /\ fpc' = "to_csv"
          /\ UNCHANGED raised
       \/ /\ Abort("download")
          /\ UNCHANGED data
    /\ UNCHANGED <<idx, dirExists, files, before, written, console, pvars>>

\* mutant: a file that is already there is kept (written only if absent)
ToCsvKeepExisting ==
    /\ fpc = "to_csv"
    /\ \/ /\ files' = IF files[symbols[idx]] = NoFile
                      THEN [files EXCEPT ![symbols[idx]] = data[1]]
                      ELSE files
          /\ written' = Append(written, symbols[idx])
          /\ fpc' = "print"
          /\ UNCHANGED raised
       \/ /\ UNCHANGED files
          /\ Abort("to_csv")
          /\ UNCHANGED written
    /\ UNCHANGED <<idx, dirExists, before, data, downloads, console, pvars>>

\* filepath = os.path.join(...); data.to_csv(filepath): the file is opened
\* for writing (truncated) and filled; a failure leaves it untouched (open
\* failed) or partly written.
ToCsv ==
    /\ fpc = "to_csv"
    /\ \/ /\ files' = [files EXCEPT ![symbols[idx]] = data[1]]
          /\ written' = Append(written, symbols[idx])
          /\ fpc' = "print"
          /\ UNCHANGED raised
       \/ /\ \/ UNCHANGED files
             \/ files' = [files EXCEPT ![symbols[idx]] = PartialFile(symbols[idx])]
          /\ Abort("to_csv")
          /\ UNCHANGED written
    /\ UNCHANGED <<idx, dirExists, before, data, downloads, console, pvars>>

\* print(f"Saved {filepath}"), then the next iteration or the end of the script
PrintSaved ==
    /\ fpc = "print"
    /\ console' = Append(console, SavedLine(symbols[idx]))
    /\ IF idx < Len(symbols)
       THEN idx' = idx + 1 /\ fpc' = "download"
       ELSE idx' = idx /\ fpc' = "done"
    /\ UNCHANGED <<dirExists, files, before, data, downloads, written, raised, pvars>>

FetchNext ==
    \/ MakeDirs
    \/ Download
    \/ ToCsv
    \/ PrintSaved

PlotSpec == PlotInit /\ [][PlotNext]_vars
FetchSpec == FetchInit /\ [][FetchNext]_vars

\* ================================================================== claims
Texts == {stdout[i] : i \in {j \in 1..Len(stdout) : stdout[j].kind = "text"}}
StatsPrinted == {stdout[i].blocks : i \in {j \in 1..Len(stdout) : stdout[j].kind = "describe"}}
Mentions(line, word) == \E i \in 1..Len(line.parts) : line.parts[i] = word
NothingPlotted == shown = <<>> /\ figs = <<>> /\ StatsPrinted = {} /\ Banner \notin Texts

\* C1: when the path handed to plot_results does not exist, the only output
\* is one diagnostic line that contains the path, the process ends with exit
\* code 1, and nothing else happens: the file is never loaded, no figure is
\* created or displayed, neither the banner nor the statistics are printed.
C1_MissingFile ==
    (csv_file # None /\ fs[csv_file[1]].kind = "absent") =>
        /\ pc \in {"exists", "exited"}
        /\ df = None /\ NothingPlotted /\ stderr = <<>>
        /\ pc = "exited" =>
              /\ exit = Some(1)
              /\ Len(stdout) = 1
              /\ stdout[1].kind = "text"
              /\ Mentions(stdout[1], csv_file[1])

C1_Witness ==
    /\ pc = "exited" /\ csv_file = Some("results.csv")
    /\ fs["results.csv"].kind = "absent" /\ Len(stdout) = 1

\* C2: when the loaded table lacks cache_type or latency_us (or both), the only
\* output is one diagnostic line naming both required columns, the process
\* ends with exit code 1, and nothing is plotted or printed after the check.
C2_MissingColumns ==
    (df # None /\ ~({"cache_type", "latency_us"} \subseteq df[1].columns)) =>
        /\ pc \in {"columns", "exited"}
        /\ NothingPlotted /\ stderr = <<>>
        /\ pc = "exited" =>
              /\ exit = Some(1)
              /\ Len(stdout) = 1
              /\ stdout[1].kind = "text"
              /\ Mentions(stdout[1], "cache_type")
              /\ Mentions(stdout[1], "latency_us")

C2_Witness ==
    /\ pc = "exited" /\ df # None
    /\ "cache_type" \in df[1].columns /\ "latency_us" \notin df[1].columns
    /\ Len(df[1].rows) > 0

\* C3: with no positional argument the script prints the usage message and
\* ends with exit code 1 without calling plot_results: no path is checked,
\* no file is loaded, no figure is produced.
C3_NoArguments ==
    (argv = <<>> /\ pc # "main") =>
        /\ pc = "exited" /\ exit = Some(1)
        /\ stdout = <<UsageMsg>> /\ stderr = <<>>
        /\ csv_file = None /\ df = None /\ NothingPlotted

C3_Witness == argv = <<>> /\ pc = "exited"

Proceeded == csv_file # None \/ df # None \/ figs # <<>> \/ shown # <<>>

\* C4 (as stated): the Plotter proceeds to check, load and plot a file only
\* when the number of positional arguments is exactly one.
C4_ExactlyOneArgument == Proceeded => Len(argv) = 1

\* C4 (amended): the Plotter proceeds to check, load and plot a file only
\* when there is at least one positional argument; the file is the first
\* argument, and further arguments are ignored.
C4_AtLeastOneArgument ==
    Proceeded => (Len(argv) >= 1 /\ csv_file = Some(argv[1]))

C4_Witness ==
    /\ Len(argv) = 2 /\ argv[1] # argv[2]
    /\ pc = "exited" /\ exit = Some(0) /\ StatsPrinted # {}

\* the rows of the table in hand that carry the label k
RowsLabelled(k) == {i \in 1..Len(df[1].rows) : df[1].rows[i].cache_type = k}
RowsMeasured(k) == {i \in RowsLabelled(k) : df[1].rows[i].latency_us # None}
Labels == {df[1].rows[i].cache_type : i \in 1..Len(df[1].rows)} \ {NA}

\* C5 (as stated): the printed statistics hold exactly one block per distinct
\* cache_type value, and each block's count is the number of rows of the
\* table with that cache_type value.
C5_CountIsRows ==
    \A blocks \in StatsPrinted :
        /\ DOMAIN blocks = Labels
        /\ \A k \in DOMAIN blocks : blocks[k].count = Cardinality(RowsLabelled(k))

\* C5 (amended): the printed statistics hold exactly one block per distinct
\* (non-missing) cache_type value, and each block's count is the number of
\* rows with that cache_type value whose latency_us is not missing.
C5_CountIsMeasuredRows ==
    \A blocks \in StatsPrinted :
        /\ DOMAIN blocks = Labels
        /\ \A k \in DOMAIN blocks : blocks[k].count = Cardinality(RowsMeasured(k))

C5_Witness ==
    /\ StatsPrinted # {} /\ Cardinality(Labels) = 2
    /\ \E k \in Labels : RowsMeasured(k) # RowsLabelled(k)

\* C6: in every block of the printed statistics, count is the number of
\* non-missing latency_us values of the group, and
\* min <= 25th percentile <= median <= 75th percentile <= max.
C6_DescribeOrdered ==
    \A blocks \in StatsPrinted : \A k \in DOMAIN blocks :
        LET b == blocks[k]
        IN /\ b.count = Cardinality(RowsMeasured(k))
           /\ b.min # None /\ b.q25x4 # None /\ b.q50x4 # None
           /\ b.q75x4 # None /\ b.max # None
           /\ 4 * b.min[1] <= b.q25x4[1]
           /\ b.q25x4[1] <= b.q50x4[1]
           /\ b.q50x4[1] <= b.q75x4[1]
           /\ b.q75x4[1] <= 4 * b.max[1]

\* a printed group of three measured rows that are not in sorted order and
\* one missing value
C6_Witness ==
    \E blocks \in StatsPrinted : \E k \in DOMAIN blocks :
        /\ blocks[k].count = 2
        /\ Cardinality(RowsLabelled(k)) = 3
        /\ blocks[k].min # blocks[k].max
        /\ df[1].rows[1].cache_type = k /\ df[1].rows[1].latency_us = Some(1)

Prefix(n) == SubSeq(symbols, 1, n)
SavedLines(n) == [i \in 1..n |-> SavedLine(symbols[i])]

\* C7: the symbols are processed one at a time in list order: downloads,
\* completed writes and printed lines are each a prefix of the list, a
\* symbol's line is printed only after its file is written, and the next
\* download is not issued before the line is printed; a run in which nothing
\* fails ends with four downloads, four files holding the newly downloaded
\* data (whatever was there before) and the four 'Saved <path>' lines.
C7_OneAtATimeInOrder ==
    /\ downloads = Prefix(Len(downloads))
    /\ written = Prefix(Len(written))
    /\ console = SavedLines(Len(console))
    /\ Len(console) <= Len(written)
    /\ Len(written) <= Len(downloads)
    /\ Len(downloads) <= Len(console) + 1
    /\ \A i \in 1..Len(written) : files[symbols[i]] = Prices(symbols[i])
    /\ fpc = "done" =>
          /\ raised = None
          /\ downloads = symbols /\ written = symbols
          /\ console = SavedLines(Len(symbols))
          /\ \A s \in Symbols : files[s] = Prices(s)

C7_Witness ==
    /\ fpc = "done" /\ Len(console) = 4
    /\ before["MSFT"] = OldFile("MSFT") /\ before["GOOG"] = NoFile

\* C8: when the download or the write for the k-th symbol raises, the run
\* has ended there: the symbols before k are written and confirmed, no line
\* is printed for the k-th or a later symbol, no download was issued for a
\* later symbol, the files of the later symbols are as they were before the
\* run, and no statement of the script can run any more.
C8_AbortAtFailure ==
    (raised # None /\ raised[1].stmt \in {"download", "to_csv"}) =>
        LET k == raised[1].k
        IN /\ fpc = "aborted"
           /\ written = Prefix(k - 1)
           /\ console = SavedLines(k - 1)
           /\ \A j \in 1..(k - 1) : files[symbols[j]] = Prices(symbols[j])
           /\ downloads = Prefix(k)
           /\ \A j \in (k + 1)..Len(symbols) : files[symbols[j]] = before[symbols[j]]
           /\ ~ENABLED FetchNext

C8_Witness ==
    /\ raised = Some([stmt |-> "to_csv", k |-> 3])
    /\ before["TSLA"] = OldFile("TSLA") /\ before["AAPL"] = OldFile("AAPL")

HistogramsShown == {i \in 1..Len(shown) : shown[i].kind = "histogram"}
BoxplotsShown == {i \in 1..Len(shown) : shown[i].kind = "boxplot"}
BothFiguresShown ==
    /\ Cardinality(HistogramsShown) = 1
    /\ Cardinality(BoxplotsShown) = 1
    /\ \A h \in HistogramsShown : \A b \in BoxplotsShown : h < b
    /\ \A h \in HistogramsShown :
          {shown[h].artists[i].label : i \in 1..Len(shown[h].artists)} = Labels

\* C9: a run given an existing file with both required columns displays the
\* histogram figure (one histogram per group), then the boxplot figure, then
\* prints the banner and the statistics, each once, and ends with exit code
\* 0; nothing is printed before both figures have been displayed.
C9_FiguresThenStatistics ==
    (df # None /\ {"cache_type", "latency_us"} \subseteq df[1].columns) =>
        /\ stdout # <<>> => BothFiguresShown
        /\ pc = "exited" =>
              /\ exit = Some(0)
              /\ BothFiguresShown
              /\ Len(stdout) = 2
              /\ stdout[1] = Banner
              /\ stdout[2].kind = "describe"

\* C10: no step of the Plotter changes the filesystem.
C10_FilesystemUnchanged == [][fs' = fs]_vars

C10_Witness ==
    /\ pc = "exited" /\ exit = Some(0)
    /\ fs["results.csv"].kind = "table" /\ Len(shown) >= 2 /\ Len(stdout) = 2

====
